---- MODULE Spec2Model ----
(***************************************************************************)
(* Domain inference and validation pipeline of streamlit_app.py:           *)
(* extract_domain_from_url, find_best_company_domain,                      *)
(* check_domain_exists / check_domain_mx,                                  *)
(* validate_domain_before_processing and process_csv_data.                 *)
(*                                                                         *)
(* A Python str is a sequence of one-character strings.  A missing cell    *)
(* (None / NaN, for which pd.isna is true) is the value NaN.               *)
(***************************************************************************)
EXTENDS Integers, Sequences, FiniteSets, TLC

VARIABLES pc, arg, ret, rule,
          df, name_columns, company_url_column, idx,
          names, domain, results, calls, email_data,
          steps, dns, run, first_output

vars == <<pc, arg, ret, rule, df, name_columns, company_url_column, idx,
          names, domain, results, calls, email_data,
          steps, dns, run, first_output>>

(***************************************************************************)
(* Characters and the str / re primitives the code uses.                   *)
(***************************************************************************)
UpperSeq == <<"A","B","C","D","E","F","G","H","I","J","K","L","M",
              "N","O","P","Q","R","S","T","U","V","W","X","Y","Z">>

LowerSeq == <<"a","b","c","d","e","f","g","h","i","j","k","l","m",
              "n","o","p","q","r","s","t","u","v","w","x","y","z">>

Digits == {"0","1","2","3","4","5","6","7","8","9"}

Range(s) == {s[i] : i \in 1..Len(s)}

\* pd.isna(x): the missing value; never equal to a str
NaN == <<"NaN">>

isna(x) == x = NaN

\* \s of re and the characters str.strip() / str.split() remove
IsSpace(c) == c \in {" ", "\t"}

\* \w of re
IsWord(c) == c \in Range(UpperSeq) \cup Range(LowerSeq) \cup Digits \cup {"_"}

\* str.lower() on one character
LowerChar(c) ==
    IF c \in Range(UpperSeq)
    THEN LowerSeq[CHOOSE i \in 1..Len(UpperSeq) : UpperSeq[i] = c]
    ELSE c

\* str.lower()
lower(s) == [i \in 1..Len(s) |-> LowerChar(s[i])]

\* str.upper() on one character
UpperChar(c) ==
    IF c \in Range(LowerSeq)
    THEN UpperSeq[CHOOSE i \in 1..Len(LowerSeq) : LowerSeq[i] = c]
    ELSE c

RECURSIVE lstrip(_)
lstrip(s) == IF s # <<>> /\ IsSpace(Head(s)) THEN lstrip(Tail(s)) ELSE s

RECURSIVE rstrip(_)
rstrip(s) ==
    IF s # <<>> /\ IsSpace(s[Len(s)]) THEN rstrip(SubSeq(s, 1, Len(s) - 1)) ELSE s

\* str.strip()
strip(s) == rstrip(lstrip(s))

\* s[i:].startswith(p), i counted from 1
StartsWithAt(s, p, i) ==
    /\ i + Len(p) - 1 <= Len(s)
    /\ SubSeq(s, i, i + Len(p) - 1) = p

\* str.startswith
startswith(s, p) == StartsWithAt(s, p, 1)

\* the `in` operator on two strs
Contains(s, p) == \E i \in 1..(Len(s) + 1) : StartsWithAt(s, p, i)

\* re.sub(r'<class>', '', s) for a one-character class: drop the characters
\* of the class
RECURSIVE DropSpaces(_)
DropSpaces(s) ==
    IF s = <<>> THEN <<>>
    ELSE IF IsSpace(Head(s)) THEN DropSpaces(Tail(s))
    ELSE <<Head(s)>> \o DropSpaces(Tail(s))

\* re.sub(r'[^\w\s.-]', '', s)
RECURSIVE DropSpecial(_)
DropSpecial(s) ==
    IF s = <<>> THEN <<>>
    ELSE IF IsWord(Head(s)) \/ IsSpace(Head(s)) \/ Head(s) \in {".", "-"}
         THEN <<Head(s)>> \o DropSpecial(Tail(s))
         ELSE DropSpecial(Tail(s))

(***************************************************************************)
(* extract_domain_from_url                                                 *)
(***************************************************************************)
LINKEDIN_COMPANY == <<"l","i","n","k","e","d","i","n",".","c","o","m",
                      "/","c","o","m","p","a","n","y">>

LINKEDIN == <<"l","i","n","k","e","d","i","n",".","c","o","m">>

HTTP == <<"h","t","t","p">>

HTTP_SCHEME == <<"h","t","t","p",":","/","/">>

HTTPS_SCHEME == <<"h","t","t","p","s",":","/","/">>

WWW == <<"w","w","w",".">>

\* mutant: the capture class written [^\s], letting '/' into the host
IsHostChar_AllowSlash(c) == ~IsSpace(c)

\* [^/\s]
IsHostChar(c) == c # "/" /\ ~IsSpace(c)

\* ([^/\s]+) matched greedily from position j: the longest run
RECURSIVE HostRun(_, _)
HostRun(s, j) ==
    IF j > Len(s) \/ ~IsHostChar(s[j]) THEN <<>>
    ELSE <<s[j]>> \o HostRun(s, j + 1)

\* mutant: the pattern without (?:www\.)?
MatchAt_KeepWww(s, i) ==
    LET afterScheme == IF StartsWithAt(s, HTTPS_SCHEME, i) THEN i + 8
                       ELSE IF StartsWithAt(s, HTTP_SCHEME, i) THEN i + 7
                       ELSE 0
    IN  IF afterScheme = 0 THEN <<>> ELSE HostRun(s, afterScheme)

\* the pattern https?://(?:www\.)?([^/\s]+) anchored at position i:
\* group 1, or <<>> when the pattern does not match there.  The optional
\* www\. is taken when a host character follows it, and given back otherwise.
MatchAt(s, i) ==
    LET afterScheme == IF StartsWithAt(s, HTTPS_SCHEME, i) THEN i + 8
                       ELSE IF StartsWithAt(s, HTTP_SCHEME, i) THEN i + 7
                       ELSE 0
    IN  IF afterScheme = 0 THEN <<>>
        ELSE IF StartsWithAt(s, WWW, afterScheme)
                /\ HostRun(s, afterScheme + 4) # <<>>
             THEN HostRun(s, afterScheme + 4)
             ELSE HostRun(s, afterScheme)

\* re.search(domain_pattern, url): the leftmost position where the pattern
\* matches; matched = FALSE is the None result
RECURSIVE SearchFrom(_, _)
SearchFrom(s, i) ==
    IF i > Len(s) THEN [matched |-> FALSE, group1 |-> <<>>]
    ELSE IF MatchAt(s, i) # <<>> THEN [matched |-> TRUE, group1 |-> MatchAt(s, i)]
    ELSE SearchFrom(s, i + 1)

re_search(s) == SearchFrom(s, 1)

\* mutant: url.startswith('linkedin.com/company')
IsLinkedInCompany_PrefixOnly(url) == startswith(url, LINKEDIN_COMPANY)

\* 'linkedin.com/company' in url
IsLinkedInCompany(url) == Contains(url, LINKEDIN_COMPANY)

\* mutant: '.' in url and 'http' not in url
IsBareDomain_NoHttpAnywhere(url) == Contains(url, <<".">>) /\ ~Contains(url, HTTP)

\* '.' in url and not url.startswith('http')
IsBareDomain(url) == Contains(url, <<".">>) /\ ~startswith(url, HTTP)

\* mutant: the test for '.' left out
LooksLikeDomain_NoDot(cleaned) ==
    /\ Len(cleaned) > 5
    /\ ~startswith(cleaned, <<".">>)

\* '.' in cleaned and len(cleaned) > 5 and not cleaned.startswith('.')
LooksLikeDomain(cleaned) ==
    /\ Contains(cleaned, <<".">>)
    /\ Len(cleaned) > 5
    /\ ~startswith(cleaned, <<".">>)

\* the body of extract_domain_from_url: the rule that returned and the value
ExtractTrace(url0) ==
    IF url0 = <<>> \/ isna(url0) THEN [rule |-> 0, value |-> <<>>]
    ELSE
    LET url == strip(url0)
        match == re_search(url)
        cleaned == DropSpaces(DropSpecial(url))
    IN  IF IsLinkedInCompany(url) THEN [rule |-> 1, value |-> LINKEDIN]
        ELSE IF match.matched THEN [rule |-> 2, value |-> match.group1]
        ELSE IF IsBareDomain(url) THEN [rule |-> 3, value |-> url]
        ELSE IF LooksLikeDomain(cleaned) THEN [rule |-> 4, value |-> lower(cleaned)]
        ELSE [rule |-> 5, value |-> <<>>]

extract_domain_from_url(url0) == ExtractTrace(url0).value

(***************************************************************************)
(* Inputs of the extractor: concatenations of at most MaxTokens tokens.    *)
(***************************************************************************)
MaxTokens == 3

ExtractTokens ==
    { HTTP_SCHEME,
      HTTPS_SCHEME \o WWW,
      HTTP,
      WWW,
      LINKEDIN_COMPANY,
      <<"e","x","a","m","p","l","e",".","c","o","m">>,
      <<"/","a","b","o","u","t">>,
      <<"A","c","m","e">>,
      <<"C","o","r","p">>,
      <<" ">>, <<".">>, <<"/">>, <<"&">>, <<":">>, <<"-">>, <<"\t">> }

RECURSIVE Concats(_, _)
Concats(T, n) ==
    IF n = 0 THEN {<<>>}
    ELSE LET shorter == Concats(T, n - 1)
         IN  shorter \cup {s \o t : s \in shorter, t \in T}

ExtractInputs == Concats(ExtractTokens, MaxTokens) \cup {NaN}

(***************************************************************************)
(* find_best_company_domain                                                *)
(***************************************************************************)
\* re.sub(r'[^\w\s]', ' ', company)
SpecialToSpace(s) ==
    [i \in 1..Len(s) |-> IF IsWord(s[i]) \/ IsSpace(s[i]) THEN s[i] ELSE " "]

\* re.sub(r'\s+', ' ', s)
RECURSIVE CollapseSpaces(_)
CollapseSpaces(s) ==
    IF s = <<>> THEN <<>>
    ELSE IF IsSpace(Head(s)) THEN <<" ">> \o CollapseSpaces(lstrip(s))
    ELSE <<Head(s)>> \o CollapseSpaces(Tail(s))

\* the first word of a str that does not start with white space
RECURSIVE FirstWord(_)
FirstWord(s) ==
    IF s = <<>> \/ IsSpace(Head(s)) THEN <<>>
    ELSE <<Head(s)>> \o FirstWord(Tail(s))

\* str.split(): the maximal runs of non-space characters
RECURSIVE split(_)
split(s) ==
    LET t == lstrip(s)
    IN  IF t = <<>> THEN <<>>
        ELSE <<FirstWord(t)>> \o split(SubSeq(t, Len(FirstWord(t)) + 1, Len(t)))

extensions ==
    << <<".","c","o","m">>, <<".","o","r","g">>, <<".","n","e","t">>,
       <<".","c","o">>, <<".","i","o">>, <<".","t","e","c","h">>,
       <<".","a","p","p">> >>

\* [f"{stem}{ext}" for ext in extensions]
WithExtensions(stem) == [i \in 1..Len(extensions) |-> stem \o extensions[i]]

\* mutant: the acronym taken over every word, one-letter words included
RECURSIVE Acronym_AllWords(_)
Acronym_AllWords(words) ==
    IF words = <<>> THEN <<>>
    ELSE <<UpperChar(Head(words)[1])>> \o Acronym_AllWords(Tail(words))

\* ''.join([word[0].upper() for word in words if len(word) > 1])
RECURSIVE Acronym(_)
Acronym(words) ==
    IF words = <<>> THEN <<>>
    ELSE (IF Len(Head(words)) > 1 THEN <<UpperChar(Head(words)[1])>> ELSE <<>>)
         \o Acronym(Tail(words))

\* the two re.sub calls and the strip() that clean the company name
Normalize(company_name) ==
    strip(CollapseSpaces(SpecialToSpace(strip(company_name))))

\* the candidates list, in the order the code appends to it
Candidates(words) ==
    IF Len(words) = 1 THEN
        LET word == lower(words[1])
        IN  IF Len(word) > 2 THEN WithExtensions(word) ELSE <<>>
    ELSE IF Len(words) = 2 THEN
        LET word1 == lower(words[1])
            word2 == lower(words[2])
        IN  IF Len(word1) > 2 /\ Len(word2) > 2
            THEN WithExtensions(word1 \o word2)
                 \o WithExtensions(word1 \o <<".">> \o word2)
            ELSE <<>>
    ELSE IF Len(words) > 2 THEN
        LET word1 == lower(words[1])
            word2 == lower(words[2])
            acronym == Acronym(words)
        IN  (IF Len(word1) > 2 /\ Len(word2) > 2
             THEN WithExtensions(word1 \o word2) ELSE <<>>)
            \o (IF Len(acronym) > 2 THEN WithExtensions(lower(acronym)) ELSE <<>>)
    ELSE <<>>

\* mutant: candidates[-1] returned
find_best_company_domain_LastCandidate(company_name) ==
    IF company_name = <<>> \/ isna(company_name) THEN <<>>
    ELSE
    LET cleaned == Normalize(company_name)
        candidates == Candidates(split(cleaned))
    IN  IF cleaned = <<>> THEN <<>>
        ELSE IF candidates # <<>> THEN candidates[Len(candidates)] ELSE <<>>

find_best_company_domain(company_name) ==
    IF company_name = <<>> \/ isna(company_name) THEN <<>>
    ELSE
    LET cleaned == Normalize(company_name)
        candidates == Candidates(split(cleaned))
    IN  IF cleaned = <<>> THEN <<>>
        ELSE IF candidates # <<>> THEN candidates[1] ELSE <<>>

(***************************************************************************)
(* Inputs of the guesser: concatenations of at most MaxNameTokens tokens.  *)
(***************************************************************************)
MaxNameTokens == 5

NameTokens ==
    { <<"A","c","m","e">>, <<"C","o","r","p">>, <<"a","b">>, <<"I">>,
      <<" ">>, <<"&">>, <<"_">> }

GuessInputs == Concats(NameTokens, MaxNameTokens) \cup {NaN}

(***************************************************************************)
(* The DNS collaborator and check_domain_exists / check_domain_mx          *)
(***************************************************************************)
\* what socket.gethostbyname / dns.resolver.resolve can raise
DnsFailures == {"NXDOMAIN", "timeout", "network_error"}

DnsOutcomes == {"ok"} \cup DnsFailures

\* mutant: `except socket.gaierror`, which lets time-outs and network
\* errors through
CaughtByExceptException_OnlyNxdomain(e) == e = "NXDOMAIN"

\* `except Exception`: every error the resolvers raise derives from Exception
CaughtByExceptException(e) == e \in DnsFailures

\* check_domain_exists for one outcome of socket.gethostbyname
check_domain_exists(outcome) ==
    IF outcome = "ok" THEN [raised |-> FALSE, value |-> TRUE]
    ELSE IF CaughtByExceptException(outcome) THEN [raised |-> FALSE, value |-> FALSE]
    ELSE [raised |-> TRUE, value |-> FALSE]

\* check_domain_mx for one outcome of dns.resolver.resolve(domain, 'MX')
check_domain_mx(outcome) ==
    IF outcome = "ok" THEN [raised |-> FALSE, value |-> TRUE]
    ELSE IF CaughtByExceptException(outcome) THEN [raised |-> FALSE, value |-> FALSE]
    ELSE [raised |-> TRUE, value |-> FALSE]

(***************************************************************************)
(* validate_domain_before_processing, one action per resolver call         *)
(***************************************************************************)
\* the results dict as first built
NoResults == [domain_exists |-> FALSE, has_mx_records |-> FALSE, is_valid |-> FALSE]

\* mutant: the 'linkedin.com' sentinel forgotten
ShortCircuit_EmptyOnly(d) == d = <<>>

\* not domain or domain == "linkedin.com"
ShortCircuit(d) == d = <<>> \/ d = LINKEDIN

\* entry of validate_domain_before_processing: build results, short-circuit
ValidateEnter ==
    /\ pc = "validate"
    /\ results' = NoResults
    /\ calls' = <<>>
    /\ pc' = IF ShortCircuit(domain) THEN "validated" ELSE "check_exists"
    /\ UNCHANGED <<arg, ret, rule, df, name_columns, company_url_column, idx,
                   names, domain, email_data>>
    /\ UNCHANGED <<steps, dns, run, first_output>>

\* mutant: the MX lookup made whatever the existence check returned
CheckExists_ThenAlwaysMx(outcome) ==
    /\ pc = "check_exists"
    /\ LET r == check_domain_exists(outcome)
       IN  /\ calls' = Append(calls, [op |-> "exists", domain |-> domain,
                                      outcome |-> outcome])
           /\ results' = IF r.raised THEN results
                         ELSE [results EXCEPT !.domain_exists = r.value]
           /\ pc' = IF r.raised THEN "raised" ELSE "check_mx"
    /\ UNCHANGED <<arg, ret, rule, df, name_columns, company_url_column, idx,
                   names, domain, email_data>>
    /\ UNCHANGED <<steps, dns, run, first_output>>

\* results["domain_exists"] = check_domain_exists(domain)
CheckExists(outcome) ==
    /\ pc = "check_exists"
    /\ LET r == check_domain_exists(outcome)
       IN  /\ calls' = Append(calls, [op |-> "exists", domain |-> domain,
                                      outcome |-> outcome])
           /\ results' = IF r.raised THEN results
                         ELSE [results EXCEPT !.domain_exists = r.value]
           /\ pc' = IF r.raised THEN "raised"
                    ELSE IF r.value THEN "check_mx" ELSE "validated"
    /\ UNCHANGED <<arg, ret, rule, df, name_columns, company_url_column, idx,
                   names, domain, email_data>>
    /\ UNCHANGED <<steps, dns, run, first_output>>

\* mutant: results["is_valid"] = results["domain_exists"]
CheckMx_ValidWhenExists(outcome) ==
    /\ pc = "check_mx"
    /\ LET r == check_domain_mx(outcome)
       IN  /\ calls' = Append(calls, [op |-> "mx", domain |-> domain,
                                      outcome |-> outcome])
           /\ results' = IF r.raised THEN results
                         ELSE [results EXCEPT !.has_mx_records = r.value,
                                              !.is_valid = results.domain_exists]
           /\ pc' = IF r.raised THEN "raised" ELSE "validated"
    /\ UNCHANGED <<arg, ret, rule, df, name_columns, company_url_column, idx,
                   names, domain, email_data>>
    /\ UNCHANGED <<steps, dns, run, first_output>>

\* results["has_mx_records"] = check_domain_mx(domain)
\* results["is_valid"] = results["has_mx_records"]
CheckMx(outcome) ==
    /\ pc = "check_mx"
    /\ LET r == check_domain_mx(outcome)
       IN  /\ calls' = Append(calls, [op |-> "mx", domain |-> domain,
                                      outcome |-> outcome])
           /\ results' = IF r.raised THEN results
                         ELSE [results EXCEPT !.has_mx_records = r.value,
                                              !.is_valid = r.value]
           /\ pc' = IF r.raised THEN "raised" ELSE "validated"
    /\ UNCHANGED <<arg, ret, rule, df, name_columns, company_url_column, idx,
                   names, domain, email_data>>
    /\ UNCHANGED <<steps, dns, run, first_output>>

(***************************************************************************)
(* process_csv_data                                                        *)
(***************************************************************************)
COL_FIRST == <<"f","i","r","s","t">>

COL_LAST == <<"l","a","s","t">>

COL_NICK == <<"n","i","c","k">>

COL_COMPANY == <<"c","o","m","p","a","n","y">>

COL_HREF == <<"H","r","e","f">>

COL_SITE_URL == <<"s","i","t","e","_","u","r","l">>

HREF == <<"h","r","e","f">>

URL == <<"u","r","l">>

LINK == <<"l","i","n","k">>

\* row.get(col, "")
RowGet(row, col) == IF col \in DOMAIN row THEN row[col] ELSE <<>>

\* mutant: the `name not in names` test left out
RECURSIVE CollectNames_NoDedup(_, _, _, _)
CollectNames_NoDedup(columns, row, cols, acc) ==
    IF cols = <<>> THEN acc
    ELSE LET col == Head(cols)
             keep == /\ col \in Range(columns)
                     /\ ~isna(row[col])
                     /\ strip(row[col]) # <<>>
         IN  CollectNames_NoDedup(columns, row, Tail(cols),
                                  IF keep THEN Append(acc, strip(row[col])) ELSE acc)

\* the names list built by the loop over name_columns, starting from acc
RECURSIVE CollectNames(_, _, _, _)
CollectNames(columns, row, cols, acc) ==
    IF cols = <<>> THEN acc
    ELSE LET col == Head(cols)
             keep == /\ col \in Range(columns)
                     /\ ~isna(row[col])
                     /\ strip(row[col]) # <<>>
                     /\ strip(row[col]) \notin Range(acc)
         IN  CollectNames(columns, row, Tail(cols),
                          IF keep THEN Append(acc, strip(row[col])) ELSE acc)

\* mutant: the column name compared without .lower()
IsAuxColumn_CaseSensitive(col) ==
    \/ Contains(col, HREF)
    \/ Contains(col, URL)
    \/ Contains(col, LINK)

\* 'href' in col.lower() or 'url' in col.lower() or 'link' in col.lower()
IsAuxColumn(col) ==
    \/ Contains(lower(col), HREF)
    \/ Contains(lower(col), URL)
    \/ Contains(lower(col), LINK)

\* the loop over df.columns that runs when domain is still empty, starting
\* from dom: the value of domain when the loop ends, and the columns the
\* extractor was applied to, in order
RECURSIVE ScanAuxTrace(_, _, _, _)
ScanAuxTrace(cols, row, dom, scanned) ==
    IF cols = <<>> THEN [domain |-> dom, scanned |-> scanned]
    ELSE LET col == Head(cols)
             potential_url == RowGet(row, col)
             applied == Append(scanned, [op |-> "scan", col |-> col])
         IN  IF IsAuxColumn(col) /\ potential_url # <<>> /\ ~isna(potential_url)
             THEN IF extract_domain_from_url(potential_url) # <<>>
                  THEN [domain |-> extract_domain_from_url(potential_url),
                        scanned |-> applied]
                  ELSE ScanAuxTrace(Tail(cols), row, <<>>, applied)
             ELSE ScanAuxTrace(Tail(cols), row, dom, scanned)

ScanAuxColumns(cols, row, dom) == ScanAuxTrace(cols, row, dom, <<>>).domain

\* mutant: the column scan made without the `if not domain` test, its result
\* replacing the domain of the company column
ResolveTrace_AlwaysScan(columns, row, company_col) ==
    LET company_value == RowGet(row, company_col)
        extracted == extract_domain_from_url(company_value)
        tryGuess == extracted = <<>> /\ company_value # <<>> /\ ~isna(company_value)
        guessed == IF tryGuess THEN find_best_company_domain(company_value)
                   ELSE extracted
        scan == ScanAuxTrace(columns, row, guessed, <<>>)
    IN  [domain |-> scan.domain,
         made |-> <<[op |-> "extract", col |-> company_col]>>
                  \o (IF tryGuess THEN <<[op |-> "guess", col |-> company_col]>>
                      ELSE <<>>)
                  \o scan.scanned]

\* mutant: the guesser called without the `not domain` test, its result
\* replacing the extracted domain
ResolveTrace_AlwaysGuess(columns, row, company_col) ==
    LET company_value == RowGet(row, company_col)
        extracted == extract_domain_from_url(company_value)
        tryGuess == company_value # <<>> /\ ~isna(company_value)
        guessed == IF tryGuess THEN find_best_company_domain(company_value)
                   ELSE extracted
        scan == ScanAuxTrace(columns, row, guessed, <<>>)
    IN  [domain |-> IF guessed = <<>> THEN scan.domain ELSE guessed,
         made |-> <<[op |-> "extract", col |-> company_col]>>
                  \o (IF tryGuess THEN <<[op |-> "guess", col |-> company_col]>>
                      ELSE <<>>)
                  \o (IF guessed = <<>> THEN scan.scanned ELSE <<>>)]

\* the domain of a row after the extractor, the guesser and the column scan,
\* and the calls made to find it, in order
ResolveTrace(columns, row, company_col) ==
    LET company_value == RowGet(row, company_col)
        extracted == extract_domain_from_url(company_value)
        tryGuess == extracted = <<>> /\ company_value # <<>> /\ ~isna(company_value)
        guessed == IF tryGuess THEN find_best_company_domain(company_value)
                   ELSE extracted
        scan == ScanAuxTrace(columns, row, guessed, <<>>)
    IN  [domain |-> IF guessed = <<>> THEN scan.domain ELSE guessed,
         made |-> <<[op |-> "extract", col |-> company_col]>>
                  \o (IF tryGuess THEN <<[op |-> "guess", col |-> company_col]>>
                      ELSE <<>>)
                  \o (IF guessed = <<>> THEN scan.scanned ELSE <<>>)]

ResolveDomain(columns, row, company_col) ==
    ResolveTrace(columns, row, company_col).domain

\* no row looked at yet
NoSteps == [row |-> 0, made |-> <<>>]

\* mutant: the second `continue` (row without a domain) left out
ProcessRow_NoDomainCheck ==
    /\ pc = "row"
    /\ idx <= Len(df.rows)
    /\ LET row == df.rows[idx]
           nms == CollectNames(df.columns, row, name_columns, <<>>)
           res == ResolveTrace(df.columns, row, company_url_column)
       IN  IF nms = <<>>
           THEN /\ names' = nms
                /\ steps' = [row |-> idx, made |-> <<>>]
                /\ idx' = idx + 1
                /\ UNCHANGED <<pc, domain>>
           ELSE /\ names' = nms
                /\ domain' = res.domain
                /\ steps' = [row |-> idx, made |-> res.made]
                /\ pc' = "validate"
                /\ UNCHANGED idx
    /\ UNCHANGED <<arg, ret, rule, df, name_columns, company_url_column,
                   results, calls, email_data>>
    /\ UNCHANGED <<dns, run, first_output>>

\* mutant: names created once before the loop instead of once per row
ProcessRow_NamesCarryOver ==
    /\ pc = "row"
    /\ idx <= Len(df.rows)
    /\ LET row == df.rows[idx]
           nms == CollectNames(df.columns, row, name_columns, names)
           res == ResolveTrace(df.columns, row, company_url_column)
       IN  IF nms = <<>>
           THEN /\ names' = nms
                /\ steps' = [row |-> idx, made |-> <<>>]
                /\ idx' = idx + 1
                /\ UNCHANGED <<pc, domain>>
           ELSE IF res.domain = <<>>
           THEN /\ names' = nms
                /\ domain' = res.domain
                /\ steps' = [row |-> idx, made |-> res.made]
                /\ idx' = idx + 1
                /\ UNCHANGED pc
           ELSE /\ names' = nms
                /\ domain' = res.domain
                /\ steps' = [row |-> idx, made |-> res.made]
                /\ pc' = "validate"
                /\ UNCHANGED idx
    /\ UNCHANGED <<arg, ret, rule, df, name_columns, company_url_column,
                   results, calls, email_data>>
    /\ UNCHANGED <<dns, run, first_output>>

\* one iteration of the loop up to the call of the validator; a row without
\* names or without a domain is skipped (continue)
ProcessRow ==
    /\ pc = "row"
    /\ idx <= Len(df.rows)
    /\ LET row == df.rows[idx]
           nms == CollectNames(df.columns, row, name_columns, <<>>)
           res == ResolveTrace(df.columns, row, company_url_column)
       IN  IF nms = <<>>
           THEN /\ names' = nms
                /\ steps' = [row |-> idx, made |-> <<>>]
                /\ idx' = idx + 1
                /\ UNCHANGED <<pc, domain>>
           ELSE IF res.domain = <<>>
           THEN /\ names' = nms
                /\ domain' = res.domain
                /\ steps' = [row |-> idx, made |-> res.made]
                /\ idx' = idx + 1
                /\ UNCHANGED pc
           ELSE /\ names' = nms
                /\ domain' = res.domain
                /\ steps' = [row |-> idx, made |-> res.made]
                /\ pc' = "validate"
                /\ UNCHANGED idx
    /\ UNCHANGED <<arg, ret, rule, df, name_columns, company_url_column,
                   results, calls, email_data>>
    /\ UNCHANGED <<dns, run, first_output>>

\* mutant: email_data.insert(0, {...})
Emit_Prepend ==
    /\ pc = "validated"
    /\ email_data' = <<[domain |-> domain,
                        names |-> names,
                        original_row |-> df.rows[idx],
                        domain_validation |-> results]>> \o email_data
    /\ idx' = idx + 1
    /\ pc' = "row"
    /\ calls' = <<>>
    /\ UNCHANGED <<arg, ret, rule, df, name_columns, company_url_column,
                   names, domain, results>>
    /\ UNCHANGED <<steps, dns, run, first_output>>

\* email_data.append({...}) and the step to the next row; the validator
\* has returned, and the log of its resolver calls ends with it
Emit ==
    /\ pc = "validated"
    /\ email_data' = Append(email_data,
                            [domain |-> domain,
                             names |-> names,
                             original_row |-> df.rows[idx],
                             domain_validation |-> results])
    /\ idx' = idx + 1
    /\ pc' = "row"
    /\ calls' = <<>>
    /\ UNCHANGED <<arg, ret, rule, df, name_columns, company_url_column,
                   names, domain, results>>
    /\ UNCHANGED <<steps, dns, run, first_output>>

\* return email_data
Finish ==
    /\ pc = "row"
    /\ idx > Len(df.rows)
    /\ pc' = "done"
    /\ UNCHANGED <<arg, ret, rule, df, name_columns, company_url_column, idx,
                   names, domain, results, calls, email_data>>
    /\ UNCHANGED <<steps, dns, run, first_output>>

\* mutant: the list of records created once, outside the function, so that a
\* second call goes on appending to it
Rerun_KeepsOutput ==
    /\ pc = "done"
    /\ run = 1
    /\ first_output' = email_data
    /\ run' = 2
    /\ idx' = 1
    /\ names' = <<>>
    /\ domain' = <<>>
    /\ results' = NoResults
    /\ calls' = <<>>
    /\ steps' = NoSteps
    /\ pc' = "row"
    /\ UNCHANGED <<arg, ret, rule, df, name_columns, company_url_column,
                   email_data, dns>>

\* the caller keeps the returned list and calls process_csv_data again with
\* the same df, name_columns and company_url_column: email_data = [] and the
\* loop starts over, with fresh locals
Rerun ==
    /\ pc = "done"
    /\ run = 1
    /\ first_output' = email_data
    /\ run' = 2
    /\ email_data' = <<>>
    /\ idx' = 1
    /\ names' = <<>>
    /\ domain' = <<>>
    /\ results' = NoResults
    /\ calls' = <<>>
    /\ steps' = NoSteps
    /\ pc' = "row"
    /\ UNCHANGED <<arg, ret, rule, df, name_columns, company_url_column, dns>>

(***************************************************************************)
(* Tables given to process_csv_data                                        *)
(***************************************************************************)
MaxRows == 2

DfColumns == <<COL_FIRST, COL_LAST, COL_COMPANY, COL_HREF, COL_SITE_URL>>

BOB == <<"B","o","b">>

LEE == <<"L","e","e">>

ACME_IO == HTTPS_SCHEME \o <<"a","c","m","e",".","i","o">>

ACME_CORP == <<"A","c","m","e"," ","C","o","r","p">>

EXAMPLE_URL == HTTP_SCHEME \o WWW \o <<"e","x","a","m","p","l","e",".","c","o","m","/","a","b","o","u","t">>

MkRow(first, last, company, href, site) ==
    (COL_FIRST :> first) @@ (COL_LAST :> last) @@ (COL_COMPANY :> company)
    @@ (COL_HREF :> href) @@ (COL_SITE_URL :> site)

BLANK == <<" ">>

AB == <<"a","b">>

LINKEDIN_PAGE == LINKEDIN_COMPANY \o <<"/","x">>

\* rows over (first, last, company, Href, site_url)
RowSamples ==
    { MkRow(<<" ">> \o BOB, LEE, ACME_IO, AB, EXAMPLE_URL),
      MkRow(NaN, BOB \o <<"\t">>, ACME_CORP, NaN, EXAMPLE_URL),
      MkRow(<<" ">> \o BOB, BOB, LINKEDIN_PAGE, NaN, EXAMPLE_URL),
      MkRow(<<" ">> \o BOB, LEE, AB, AB, EXAMPLE_URL),
      MkRow(<<" ">> \o BOB, BLANK, <<>>, ACME_IO, EXAMPLE_URL),
      MkRow(BLANK, NaN, ACME_IO, NaN, <<>>),
      MkRow(<<" ">> \o BOB, BOB, AB, AB, <<>>),
      MkRow(<<"b","o","b">>, BOB, NaN, NaN, EXAMPLE_URL) }

RECURSIVE Tables(_)
Tables(n) ==
    IF n = 0 THEN {<<>>}
    ELSE LET shorter == Tables(n - 1)
         IN  shorter \cup {Append(t, r) : t \in shorter, r \in RowSamples}

NameColumnChoices == { <<COL_FIRST, COL_LAST>>, <<COL_FIRST, COL_NICK>> }

\* the name columns and the company column the caller chose
Configs ==
    { [names |-> n, company |-> COL_COMPANY] : n \in NameColumnChoices }
    \cup { [names |-> <<COL_LAST, COL_FIRST>>, company |-> COL_HREF] }

(***************************************************************************)
(* Specifications                                                          *)
(***************************************************************************)
NoTable == [columns |-> <<>>, rows |-> <<>>]

\* the pure functions run outside the pipeline
NoPipeline ==
    /\ df = NoTable
    /\ name_columns = <<>>
    /\ company_url_column = <<>>
    /\ idx = 1
    /\ names = <<>>
    /\ results = NoResults
    /\ calls = <<>>
    /\ email_data = <<>>
    /\ steps = NoSteps
    /\ dns = <<>>
    /\ run = 1
    /\ first_output = <<>>

NoCall ==
    /\ arg = <<>>
    /\ ret = <<>>
    /\ rule = -1

\* process_csv_data(df, name_columns, company_url_column)
Init ==
    /\ pc = "row"
    /\ NoCall
    /\ df \in [columns : {DfColumns}, rows : Tables(MaxRows)]
    /\ \E cfg \in Configs :
          /\ name_columns = cfg.names
          /\ company_url_column = cfg.company
    /\ idx = 1
    /\ names = <<>>
    /\ domain = <<>>
    /\ results = NoResults
    /\ calls = <<>>
    /\ email_data = <<>>
    /\ steps = NoSteps
    /\ dns = <<>>
    /\ run = 1
    /\ first_output = <<>>

Next ==
    \/ ProcessRow
    \/ ValidateEnter
    \/ \E outcome \in DnsOutcomes : CheckExists(outcome)
    \/ \E outcome \in DnsOutcomes : CheckMx(outcome)
    \/ Emit
    \/ Finish

Spec == Init /\ [][Next]_vars

ACME_IO_DOMAIN == <<"a","c","m","e",".","i","o">>

ACMECORP_COM == <<"a","c","m","e","c","o","r","p",".","c","o","m">>

EXAMPLE_COM == <<"e","x","a","m","p","l","e",".","c","o","m">>

\* what the resolver answers for the domains it knows: the outcome of
\* socket.gethostbyname (exists) and of dns.resolver.resolve(domain, 'MX')
Oracles ==
    { (ACME_IO_DOMAIN :> [exists |-> "ok", mx |-> "ok"])
        @@ (EXAMPLE_COM :> [exists |-> "ok", mx |-> "timeout"]),
      (ACME_IO_DOMAIN :> [exists |-> "timeout", mx |-> "ok"])
        @@ (ACMECORP_COM :> [exists |-> "ok", mx |-> "ok"])
        @@ (EXAMPLE_COM :> [exists |-> "network_error", mx |-> "ok"]) }

\* the answers of the resolver for domain d; a name it does not know does
\* not exist
Answer(oracle, d) ==
    IF d \in DOMAIN oracle THEN oracle[d]
    ELSE [exists |-> "NXDOMAIN", mx |-> "NXDOMAIN"]

\* process_csv_data called twice on the same arguments, with a resolver that
\* answers the same way each time it is asked about a domain
InitRerun ==
    /\ pc = "row"
    /\ NoCall
    /\ df \in [columns : {DfColumns}, rows : Tables(MaxRows)]
    /\ \E cfg \in Configs :
          /\ name_columns = cfg.names
          /\ company_url_column = cfg.company
    /\ idx = 1
    /\ names = <<>>
    /\ domain = <<>>
    /\ results = NoResults
    /\ calls = <<>>
    /\ email_data = <<>>
    /\ steps = NoSteps
    /\ dns \in Oracles
    /\ run = 1
    /\ first_output = <<>>

NextRerun ==
    \/ ProcessRow
    \/ ValidateEnter
    \/ CheckExists(Answer(dns, domain).exists)
    \/ CheckMx(Answer(dns, domain).mx)
    \/ Emit
    \/ Finish
    \/ Rerun

SpecRerun == InitRerun /\ [][NextRerun]_vars

\* validate_domain_before_processing(domain) called on its own
ValidateInputs ==
    { <<>>, LINKEDIN, WWW \o LINKEDIN, LINKEDIN_COMPANY, <<".">>,
      <<"e","x","a","m","p","l","e",".","c","o","m">>,
      <<"a","c","m","e",".","i","o">>,
      <<"a","c","m","e","c","o","r","p",".","c","o","m">>,
      <<"L","i","n","k","e","d","I","n",".","c","o","m">>,
      <<" ">>, <<"a","b">>, HTTP \o <<".">>, WWW, BOB, LEE }

InitValidate ==
    /\ pc = "validate"
    /\ NoCall
    /\ NoPipeline
    /\ domain \in ValidateInputs

NextValidate ==
    \/ ValidateEnter
    \/ \E outcome \in DnsOutcomes : CheckExists(outcome)
    \/ \E outcome \in DnsOutcomes : CheckMx(outcome)

SpecValidate == InitValidate /\ [][NextValidate]_vars

\* extract_domain_from_url(arg) called on its own
ExtractCall ==
    /\ pc = "call_extract"
    /\ ret' = ExtractTrace(arg).value
    /\ rule' = ExtractTrace(arg).rule
    /\ pc' = "returned"
    /\ UNCHANGED <<arg, df, name_columns, company_url_column, idx,
                   names, domain, results, calls, email_data>>
    /\ UNCHANGED <<steps, dns, run, first_output>>

InitExtract ==
    /\ pc = "call_extract"
    /\ arg \in ExtractInputs
    /\ ret = <<>>
    /\ rule = -1
    /\ NoPipeline
    /\ domain = <<>>

SpecExtract == InitExtract /\ [][ExtractCall]_vars

\* find_best_company_domain(arg) called on its own
GuessCall ==
    /\ pc = "call_guess"
    /\ ret' = find_best_company_domain(arg)
    /\ pc' = "returned"
    /\ UNCHANGED <<arg, rule, df, name_columns, company_url_column, idx,
                   names, domain, results, calls, email_data>>
    /\ UNCHANGED <<steps, dns, run, first_output>>

InitGuess ==
    /\ pc = "call_guess"
    /\ arg \in GuessInputs
    /\ ret = <<>>
    /\ rule = -1
    /\ NoPipeline
    /\ domain = <<>>

SpecGuess == InitGuess /\ [][GuessCall]_vars

(***************************************************************************)
(* Properties of validate_domain_before_processing                         *)
(***************************************************************************)
\* C1: for the empty domain and for the domain 'linkedin.com' the validator
\* makes no resolver call at all (it never reaches check_domain_exists or
\* check_domain_mx) and returns all three flags false.
C1_SentinelShortCircuits ==
    (domain = <<>> \/ domain = LINKEDIN) =>
        /\ calls = <<>>
        /\ pc \notin {"check_exists", "check_mx", "raised"}
        /\ pc = "validated" =>
              results = [domain_exists |-> FALSE, has_mx_records |-> FALSE,
                         is_valid |-> FALSE]

C1_Witness == pc = "validated" /\ domain = LINKEDIN /\ calls = <<>>

\* C2: the MX lookup is only ever made right after an existence check that
\* returned true; once the existence check has returned false no MX lookup
\* is made and has_mx_records and is_valid are false.
C2_NoMxWithoutExistence ==
    /\ \A i \in 1..Len(calls) :
          calls[i].op = "mx" =>
              /\ i > 1
              /\ calls[i - 1].op = "exists"
              /\ calls[i - 1].outcome = "ok"
              /\ results.domain_exists
    /\ ((\E i \in 1..Len(calls) : calls[i].op = "exists") /\ ~results.domain_exists) =>
          /\ \A i \in 1..Len(calls) : calls[i].op # "mx"
          /\ pc # "check_mx"
          /\ ~results.has_mx_records
          /\ ~results.is_valid

C2_Witness ==
    /\ pc = "validated"
    /\ Len(calls) = 1
    /\ calls[1].op = "exists"
    /\ calls[1].outcome = "timeout"

\* C3: in every result of the validator, whatever the resolvers answered,
\* is_valid implies has_mx_records and has_mx_records implies domain_exists.
C3_ValidationChain ==
    /\ results.is_valid => results.has_mx_records
    /\ results.has_mx_records => results.domain_exists

C3_Witness ==
    /\ pc = "validated"
    /\ results.domain_exists
    /\ ~results.has_mx_records
    /\ Len(calls) = 2
    /\ calls[2].outcome = "NXDOMAIN"

\* C4: no failure of a resolver call escapes as an exception: a failed
\* host resolution or MX lookup leaves its flag false, the validator never
\* raises, and process_csv_data returns only after its loop has gone through
\* every row, so the rows after a row with a DNS failure are still processed.
C4_DnsFailureNeverAborts ==
    /\ pc # "raised"
    /\ \A i \in 1..Len(calls) :
          calls[i].outcome \in {"NXDOMAIN", "timeout", "network_error"} =>
              /\ calls[i].op = "exists" => ~results.domain_exists
              /\ calls[i].op = "mx" => ~results.has_mx_records
    /\ pc = "done" => idx = Len(df.rows) + 1

C4_Witness ==
    /\ pc = "done"
    /\ Len(email_data) >= 2
    /\ email_data[1].domain # LINKEDIN
    /\ ~email_data[1].domain_validation.domain_exists

(***************************************************************************)
(* Properties of extract_domain_from_url                                   *)
(***************************************************************************)
\* a character that is neither '/' nor white space
HostChar(c) == c \notin {"/", " ", "\t"}

\* the position after 'http://' or 'https://' standing at position i, or 0
SchemeEnd(s, i) ==
    IF i + 6 <= Len(s) /\ SubSeq(s, i, i + 6) = <<"h","t","t","p",":","/","/">>
    THEN i + 7
    ELSE IF i + 7 <= Len(s)
            /\ SubSeq(s, i, i + 7) = <<"h","t","t","p","s",":","/","/">>
    THEN i + 8
    ELSE 0

\* an http(s) URL stands at position i: a scheme followed by a host character
UrlAt(s, i) ==
    /\ SchemeEnd(s, i) # 0
    /\ SchemeEnd(s, i) <= Len(s)
    /\ HostChar(s[SchemeEnd(s, i)])

HasUrl(s) == \E i \in 1..Len(s) : UrlAt(s, i)

\* the host of the first URL of s: it starts after the scheme, and after
\* 'www.' when a host character follows that prefix, and it ends before the
\* next '/' or white space
FirstHost(s) ==
    LET i == CHOOSE n \in 1..Len(s) :
                 UrlAt(s, n) /\ \A m \in 1..(n - 1) : ~UrlAt(s, m)
        j == SchemeEnd(s, i)
        k == IF /\ j + 4 <= Len(s)
                /\ SubSeq(s, j, j + 3) = <<"w","w","w",".">>
                /\ HostChar(s[j + 4])
             THEN j + 4 ELSE j
        e == CHOOSE n \in k..Len(s) :
                 /\ \A m \in k..n : HostChar(s[m])
                 /\ n = Len(s) \/ ~HostChar(s[n + 1])
    IN  SubSeq(s, k, e)

\* s without its leading and trailing white space
Trimmed(s) ==
    IF \A i \in 1..Len(s) : s[i] \in {" ", "\t"} THEN <<>>
    ELSE LET a == CHOOSE i \in 1..Len(s) :
                      /\ s[i] \notin {" ", "\t"}
                      /\ \A m \in 1..(i - 1) : s[m] \in {" ", "\t"}
             b == CHOOSE i \in 1..Len(s) :
                      /\ s[i] \notin {" ", "\t"}
                      /\ \A m \in (i + 1)..Len(s) : s[m] \in {" ", "\t"}
         IN  SubSeq(s, a, b)

\* C5 as stated: the extractor never returns a string that starts with
\* 'http', whichever rule returned.
C5_NeverLeadingHttp ==
    pc = "returned" => ~(Len(ret) >= 4 /\ SubSeq(ret, 1, 4) = <<"h","t","t","p">>)

\* C5 amended: the extractor never returns a string that starts with a
\* scheme, 'http://' or 'https://', and the results of rules 1, 3 and 5
\* never start with 'http'; the host captured by rule 2 and the cleaned
\* string of rule 4 may start with the letters 'http'.
C5_NeverLeadingScheme ==
    pc = "returned" =>
        /\ SchemeEnd(ret, 1) = 0
        /\ rule \in {0, 1, 3, 5} =>
              ~(Len(ret) >= 4 /\ SubSeq(ret, 1, 4) = <<"h","t","t","p">>)

C5_Witness ==
    /\ pc = "returned"
    /\ rule = 2
    /\ Len(ret) > 4
    /\ SubSeq(ret, 1, 4) = <<"h","t","t","p">>

\* C6: a non-empty text that contains 'linkedin.com/company' anywhere gives
\* exactly 'linkedin.com', also when it is or contains an http(s) URL.
C6_LinkedInFirst ==
    (pc = "returned" /\ arg # NaN /\ arg # <<>>
       /\ \E i \in 1..Len(arg) :
             /\ i + 19 <= Len(arg)
             /\ SubSeq(arg, i, i + 19) = LINKEDIN_COMPANY)
    => ret = <<"l","i","n","k","e","d","i","n",".","c","o","m">>

C6_Witness ==
    /\ pc = "returned"
    /\ arg = HTTPS_SCHEME \o WWW \o LINKEDIN_COMPANY \o <<"/","a","b","o","u","t">>
    /\ ret = LINKEDIN

\* C7: a text without 'linkedin.com/company' that holds an http(s) URL gives
\* the host of its first URL: the characters after the scheme and after an
\* optional 'www.', up to the next '/' or white space.
C7_UrlGivesHost ==
    (pc = "returned" /\ arg # NaN /\ ~Contains(arg, LINKEDIN_COMPANY) /\ HasUrl(arg))
    => ret = FirstHost(arg)

C7_Witness ==
    /\ pc = "returned"
    /\ arg = HTTPS_SCHEME \o WWW \o <<"e","x","a","m","p","l","e",".","c","o","m">>
             \o <<"/","a","b","o","u","t">>
    /\ ret = <<"e","x","a","m","p","l","e",".","c","o","m">>

\* C8 as stated: a text not caught by rules 1 and 2 that contains '.' and
\* does not start with 'http' is returned unchanged, equal to the input.
C8_BareDomainUnchanged ==
    (pc = "returned" /\ arg # NaN /\ rule \notin {1, 2}
       /\ (\E i \in 1..Len(arg) : arg[i] = ".")
       /\ ~(Len(arg) >= 4 /\ SubSeq(arg, 1, 4) = <<"h","t","t","p">>))
    => ret = arg

\* C8 amended: the text is first stripped of leading and trailing white
\* space; when the stripped text is not caught by rules 1 and 2, contains
\* '.' and does not start with 'http', the stripped text is returned.
C8_BareDomainTrimmed ==
    (pc = "returned" /\ arg # NaN /\ rule \notin {1, 2}
       /\ (\E i \in 1..Len(arg) : arg[i] = ".")
       /\ ~(Len(Trimmed(arg)) >= 4
            /\ SubSeq(Trimmed(arg), 1, 4) = <<"h","t","t","p">>))
    => ret = Trimmed(arg)

C8_Witness ==
    /\ pc = "returned"
    /\ rule = 3
    /\ arg = <<" ">> \o <<"e","x","a","m","p","l","e",".","c","o","m">> \o <<"\t">>
    /\ ret = <<"e","x","a","m","p","l","e",".","c","o","m">>

\* C9: empty or missing input, and every text with no '.', no http(s) URL
\* and no 'linkedin.com/company', gives the empty string.
C9_NoDotGivesEmpty ==
    (pc = "returned"
       /\ \/ arg = <<>>
          \/ arg = NaN
          \/ /\ \A i \in 1..Len(arg) : arg[i] # "."
             /\ ~HasUrl(arg)
             /\ ~Contains(arg, LINKEDIN_COMPANY))
    => ret = <<>>

C9_Witness ==
    /\ pc = "returned"
    /\ arg = <<"A","c","m","e"," ","C","o","r","p">>
    /\ ret = <<>>
    /\ rule = 5

(***************************************************************************)
(* Properties of find_best_company_domain                                  *)
(***************************************************************************)
DOT_COM == <<".","c","o","m">>

\* C10: only the first candidate is returned: one word longer than 2 gives
\* word.com, two words both longer than 2 give word1word2.com, and an empty
\* name, a single word of at most 2 characters, and two words of which one
\* has at most 2 characters give the empty string.
C10_FirstCandidateOnly ==
    pc = "returned" =>
        LET words == IF arg = NaN THEN <<>> ELSE split(Normalize(arg))
        IN  /\ (arg = <<>> \/ arg = NaN) => ret = <<>>
            /\ Len(words) = 1 =>
                  ret = IF Len(words[1]) > 2 THEN lower(words[1]) \o DOT_COM
                        ELSE <<>>
            /\ Len(words) = 2 =>
                  ret = IF Len(words[1]) > 2 /\ Len(words[2]) > 2
                        THEN lower(words[1]) \o lower(words[2]) \o DOT_COM
                        ELSE <<>>

C10_Witness ==
    /\ pc = "returned"
    /\ arg = <<"A","c","m","e"," ","C","o","r","p">>
    /\ ret = <<"a","c","m","e","c","o","r","p",".","c","o","m">>

\* the lower-cased first letters of the words longer than 1 character
InitialsOf(words) ==
    LET long == SelectSeq(words, LAMBDA w : Len(w) > 1)
    IN  [i \in 1..Len(long) |-> LowerChar(long[i][1])]

\* C11: a name of more than two words gives word1word2.com when the first
\* two words are both longer than 2 characters; otherwise it gives
\* acronym.com when the acronym (lower-cased first letters of the words
\* longer than 1 character) is longer than 2 characters; otherwise the
\* empty string.  The acronym is never returned when word1word2.com exists.
C11_MultiWordCandidate ==
    (pc = "returned" /\ arg # NaN /\ Len(split(Normalize(arg))) > 2) =>
        LET words == split(Normalize(arg))
        IN  ret = IF Len(words[1]) > 2 /\ Len(words[2]) > 2
                  THEN lower(words[1]) \o lower(words[2]) \o DOT_COM
                  ELSE IF Len(InitialsOf(words)) > 2
                  THEN InitialsOf(words) \o DOT_COM
                  ELSE <<>>

C11_Witness ==
    /\ pc = "returned"
    /\ arg = <<"a","b"," ","A","c","m","e"," ","C","o","r","p">>
    /\ ret = <<"a","a","c",".","c","o","m">>

(***************************************************************************)
(* Properties of process_csv_data                                          *)
(***************************************************************************)
\* a cell that holds a non-empty str
Filled(cell) == cell # NaN /\ cell # <<>>

\* the trimmed text of the cell of a column; empty for a column that is not
\* in the table and for a missing cell
CellText(row, col) ==
    IF col \in DOMAIN row /\ row[col] # NaN THEN Trimmed(row[col]) ELSE <<>>

\* some configured name column of the row is neither missing nor blank
HasName(row) ==
    \E j \in 1..Len(name_columns) :
        /\ name_columns[j] \in DOMAIN row
        /\ row[name_columns[j]] # NaN
        /\ \E i \in 1..Len(row[name_columns[j]]) :
              row[name_columns[j]][i] \notin {" ", "\t"}

\* the value of the configured company column, "" when the table lacks it
CompanyValue(row) ==
    IF company_url_column \in DOMAIN row THEN row[company_url_column] ELSE <<>>

\* what the extractor gives for the company value
Extracted(row) == extract_domain_from_url(CompanyValue(row))

\* what the guesser gives for the company value, when the value is present
Guessed(row) ==
    IF Filled(CompanyValue(row)) THEN find_best_company_domain(CompanyValue(row))
    ELSE <<>>

\* the name of the column contains href, url or link, whatever the case
AuxName(col) ==
    LET name == lower(col)
    IN  \E i \in 1..Len(name) :
            \/ i + 3 <= Len(name) /\ SubSeq(name, i, i + 3) = <<"h","r","e","f">>
            \/ i + 2 <= Len(name) /\ SubSeq(name, i, i + 2) = <<"u","r","l">>
            \/ i + 3 <= Len(name) /\ SubSeq(name, i, i + 3) = <<"l","i","n","k">>

\* the href / url / link columns of the row that hold a value, in table order
AuxFilled(row) ==
    SelectSeq(df.columns, LAMBDA c : AuxName(c) /\ Filled(row[c]))

\* neither the company column nor any href / url / link column gives a domain
NoDomainAnywhere(row) ==
    /\ Extracted(row) = <<>>
    /\ Guessed(row) = <<>>
    /\ LET aux == AuxFilled(row)
       IN  \A k \in 1..Len(aux) : extract_domain_from_url(row[aux[k]]) = <<>>

\* the states in which a row has just been resolved: the resolver calls made
\* for it and its domain are those of the row steps.row
RowResolved == pc \in {"validate", "row"} /\ steps.row > 0 /\ steps.made # <<>>

\* the states in which the record list is returned; the list as it stands
\* after the first rows of a table is the list returned for the table made
\* of those rows, and the tables of every length up to MaxRows are run
RecordsSettled == pc = "done"

\* C12: a record is emitted only for a row with at least one name and a
\* domain: every record has a non-empty domain and a non-empty names list,
\* and comes from a row that has a non-blank name cell and for which the
\* extractor, the guesser or the column scan gives a domain, so that a row
\* without a name or without a domain leaves no record.
C12_RecordNeedsNameAndDomain ==
    RecordsSettled =>
        \A k \in 1..Len(email_data) :
            /\ email_data[k].domain # <<>>
            /\ email_data[k].names # <<>>
            /\ HasName(email_data[k].original_row)
            /\ ~NoDomainAnywhere(email_data[k].original_row)

C12_Witness ==
    /\ pc = "done"
    /\ Len(df.rows) = 2
    /\ ~HasName(df.rows[1])
    /\ HasName(df.rows[2])
    /\ NoDomainAnywhere(df.rows[2])
    /\ email_data = <<>>

\* C13: the domain is resolved first-success-wins, in the order extractor on
\* the company column, guesser on the company value, column scan: the guesser
\* is called only after the extractor gave nothing, the href / url / link
\* columns are scanned only after both gave nothing, and a domain extracted or
\* guessed from the company column is the domain of the record whatever the
\* other columns hold.
C13_FirstSuccessWins ==
    /\ RowResolved =>
          LET row == df.rows[steps.row]
              made == steps.made
          IN  /\ made[1] = [op |-> "extract", col |-> company_url_column]
              /\ \A k \in 2..Len(made) :
                    /\ made[k].op \in {"guess", "scan"}
                    /\ made[k].op = "guess" => k = 2 /\ Extracted(row) = <<>>
                    /\ made[k].op = "scan" =>
                          Extracted(row) = <<>> /\ Guessed(row) = <<>>
              /\ Extracted(row) # <<>> => domain = Extracted(row)
              /\ (Extracted(row) = <<>> /\ Guessed(row) # <<>>) =>
                    domain = Guessed(row)
    /\ RecordsSettled =>
          \A k \in 1..Len(email_data) :
              LET row == email_data[k].original_row
              IN  /\ Extracted(row) # <<>> => email_data[k].domain = Extracted(row)
                  /\ (Extracted(row) = <<>> /\ Guessed(row) # <<>>) =>
                        email_data[k].domain = Guessed(row)

C13_Witness ==
    /\ pc = "done"
    /\ company_url_column = COL_COMPANY
    /\ \E k \in 1..Len(email_data) :
          /\ email_data[k].original_row[COL_COMPANY] = ACME_IO
          /\ email_data[k].original_row[COL_SITE_URL] = EXAMPLE_URL
          /\ email_data[k].domain = <<"a","c","m","e",".","i","o">>

\* the columns the scan of the last processed row applied the extractor to
ScannedColumns ==
    LET scans == SelectSeq(steps.made, LAMBDA e : e.op = "scan")
    IN  [k \in 1..Len(scans) |-> scans[k].col]

\* the company column of the row gives no domain, so that the scan runs
ScanRuns(row) == Extracted(row) = <<>> /\ Guessed(row) = <<>>

\* what the scan of the href / url / link columns of the row comes to: the
\* columns the extractor is applied to, which are those with a value, in
\* table order, up to and including the first one it gets a domain from (all
\* of them when none gives one), and that first domain ("" without one)
ScanOutcome(row) ==
    LET aux == AuxFilled(row)
        found == [k \in 1..Len(aux) |-> extract_domain_from_url(row[aux[k]])]
        hits == {k \in 1..Len(aux) : found[k] # <<>>}
        n == IF hits = {} THEN 0 ELSE CHOOSE k \in hits : \A m \in hits : k <= m
    IN  [columns |-> SubSeq(aux, 1, IF n = 0 THEN Len(aux) ELSE n),
         domain |-> IF n = 0 THEN <<>> ELSE found[n]]

\* the domain the scan of the href / url / link columns ends with
ScanDomain(row) == ScanOutcome(row).domain

Eligible(row) == HasName(row) /\ ~NoDomainAnywhere(row)

\* C15: the rows the records were produced from (original_row) are exactly
\* the eligible rows among those processed so far, each once and in input
\* order: a row gives at most one record, an eligible row exactly one, and
\* the record of an earlier row comes before that of a later row.
C15_OneRecordPerEligibleRowInOrder ==
    RecordsSettled =>
        [k \in 1..Len(email_data) |-> email_data[k].original_row]
            = SelectSeq(SubSeq(df.rows, 1, idx - 1), Eligible)

C15_Witness ==
    /\ pc = "done"
    /\ Len(df.rows) = 2
    /\ df.rows[1] # df.rows[2]
    /\ Len(email_data) = 2
    /\ email_data[1].original_row = df.rows[1]
    /\ email_data[2].original_row = df.rows[2]

\* list is what the configured name columns of the row contribute: the
\* trimmed text of every cell that is present and not blank, in the order of
\* name_columns, a text that an earlier column already gave being left out
\* (texts are compared as they are, 'bob' is not 'Bob')
NamesOf(list, row) ==
    LET cells == [j \in 1..Len(name_columns) |-> CellText(row, name_columns[j])]
        firsts == {j \in 1..Len(cells) :
                      /\ cells[j] # <<>>
                      /\ \A m \in 1..(j - 1) : cells[m] # cells[j]}
    IN  /\ Len(list) = Cardinality(firsts)
        /\ \A k \in 1..Len(list) :
              \E j \in firsts : /\ Cardinality({m \in firsts : m <= j}) = k
                                /\ list[k] = cells[j]

\* C17: the names list of a row, and of its record, holds the non-empty
\* trimmed values of the configured name columns in configured order, each
\* value once (exact match, the first occurrence kept); an absent column and
\* a missing or blank cell give nothing.
C17_NamesTrimmedDedupedInOrder ==
    /\ (pc \in {"validate", "row"} /\ steps.row > 0) =>
          NamesOf(names, df.rows[steps.row])
    /\ RecordsSettled =>
          \A k \in 1..Len(email_data) :
              NamesOf(email_data[k].names, email_data[k].original_row)

C17_Witness ==
    /\ pc = "done"
    /\ name_columns = <<COL_FIRST, COL_LAST>>
    /\ Len(email_data) = 2
    /\ email_data[1].original_row[COL_FIRST] = <<" ">> \o BOB
    /\ email_data[1].original_row[COL_LAST] = BOB
    /\ email_data[1].names = <<BOB>>
    /\ email_data[2].original_row[COL_FIRST] = <<"b","o","b">>
    /\ email_data[2].names = << <<"b","o","b">>, BOB >>

\* the company cell of the row contains 'linkedin.com/company'
LinkedInRow(row) ==
    LET v == CompanyValue(row)
        n == Len(LINKEDIN_COMPANY)
    IN  /\ Filled(v)
        /\ \E i \in 1..Len(v) :
              i + n - 1 <= Len(v) /\ SubSeq(v, i, i + n - 1) = LINKEDIN_COMPANY

\* C18: the guesser is called for a row only when the extractor gave nothing
\* for its company cell; for a row with a name whose company cell contains
\* 'linkedin.com/company' the only call made to resolve the domain is the
\* extractor on the company column (no guesser, no column scan), the domain
\* is 'linkedin.com', the validator returns all-false without ever reaching
\* a DNS lookup, and the row still gets its record, with that domain and
\* that validation.
C18_LinkedInRowSkipsGuesserAndDns ==
    /\ (steps.row > 0 /\ steps.made # <<>> /\ LinkedInRow(df.rows[steps.row])) =>
          /\ steps.made = <<[op |-> "extract", col |-> company_url_column]>>
          /\ domain = LINKEDIN
          /\ pc \notin {"check_exists", "check_mx"}
          /\ calls = <<>>
          /\ pc = "validated" => results = NoResults
    /\ (RowResolved /\ \E k \in 1..Len(steps.made) : steps.made[k].op = "guess") =>
          Extracted(df.rows[steps.row]) = <<>>
    /\ RecordsSettled =>
          /\ \A k \in 1..Len(email_data) :
                LinkedInRow(email_data[k].original_row) =>
                    /\ email_data[k].domain = LINKEDIN
                    /\ email_data[k].domain_validation = NoResults
          /\ \A i \in 1..(idx - 1) :
                (HasName(df.rows[i]) /\ LinkedInRow(df.rows[i])) =>
                    \E k \in 1..Len(email_data) :
                        email_data[k].original_row = df.rows[i]

C18_Witness ==
    /\ pc = "done"
    /\ company_url_column = COL_COMPANY
    /\ \E k \in 1..Len(email_data) :
          /\ email_data[k].original_row[COL_COMPANY] = LINKEDIN_PAGE
          /\ email_data[k].original_row[COL_SITE_URL] = EXAMPLE_URL
          /\ email_data[k].domain = LINKEDIN
          /\ email_data[k].domain_validation = NoResults

ResolvedDomain(row) ==
    LET e == Extracted(row)
        g == Guessed(row)
    IN  IF e # <<>> THEN e ELSE IF g # <<>> THEN g ELSE ScanDomain(row)

\* what the validator returns for domain d when the resolver answers dns
ValidationOf(d) ==
    LET exists == d \notin {<<>>, LINKEDIN} /\ Answer(dns, d).exists = "ok"
        mx == exists /\ Answer(dns, d).mx = "ok"
    IN  [domain_exists |-> exists, has_mx_records |-> mx, is_valid |-> mx]

\* C19: with a fixed resolver, whether a row gives a record, and the domain,
\* names and validation of that record, are determined by the cells of the
\* row and the column configuration alone, whatever rows came before it (in
\* this call or in an earlier one) and wherever it stands in the table.
C19_RowsIndependent ==
    RecordsSettled =>
        LET rows == SelectSeq(SubSeq(df.rows, 1, idx - 1), Eligible)
        IN  /\ Len(email_data) = Len(rows)
            /\ \A k \in 1..Len(email_data) :
                  LET d == ResolvedDomain(rows[k])
                  IN  /\ email_data[k].original_row = rows[k]
                      /\ email_data[k].domain = d
                      /\ NamesOf(email_data[k].names, rows[k])
                      /\ email_data[k].domain_validation = ValidationOf(d)

C19_Witness ==
    /\ run = 2
    /\ pc = "done"
    /\ Len(email_data) = 2
    /\ email_data[1].names # email_data[2].names
    /\ email_data[1].domain # email_data[2].domain
    /\ email_data[1].domain_validation.domain_exists
    /\ ~email_data[1].domain_validation.has_mx_records
    /\ email_data[2].domain_validation.is_valid

====
